---- MODULE Spec2Model ----
(***************************************************************************)
(* Model of the merch-intel environment setup:                             *)
(*   cloud_data_transfer.py  CloudDataTransferUtils (transfer manager,     *)
(*                           transfer poller, query scheduler)             *)
(*   cloud_bigquery.py       dataset provisioner, query runner             *)
(*   cloud_env_setup.py      the orchestrator (main)                       *)
(* The remote services (BigQuery, the data transfer service, the           *)
(* authorization provider) are the environment: their answers are chosen   *)
(* nondeterministically, their stored state is part of the model state.    *)
(***************************************************************************)
EXTENDS Integers, Sequences, FiniteSets, TLC

VARIABLES
  configs,   \* transfer service: the transfer configs, in listing order
  last,      \* record of the most recent CloudDataTransferUtils call
  poll,      \* wait_for_transfer_completion: its locals and what it did
  datasets,  \* BigQuery: the datasets of the projects
  provision, \* the two most recent create_dataset_if_not_exists calls
  queries,   \* what the most recent execute_queries call did
  setup,     \* what the most recent run of main did
  lookup     \* what a direct call of _get_existing_transfer was given and gave

transferVars == <<configs, last>>
setupVars == <<datasets, provision, queries, setup>>
vars == <<configs, last, poll, datasets, provision, queries, setup, lookup>>

----------------------------------------------------------------------------
(* Program constants: cloud_data_transfer.py lines 31-43.                  *)

_MERCHANT_CENTER_ID == "merchant_center"
_GOOGLE_ADS_ID == "google_ads"
SCHEDULED_QUERY_ID == "scheduled_query"
_PENDING_STATE == 2
_RUNNING_STATE == 3
_SUCCESS_STATE == 4
_FAILED_STATE == 5
_CANCELLED_STATE == 6
_SLEEP_SECONDS == 60
_MAX_POLL_COUNTER == 100
_ADS_TABLES == "ShoppingProductStats"

\* The lifecycle states the transfer service reports for a config or a run.
TransferStates ==
  {_PENDING_STATE, _RUNNING_STATE, _SUCCESS_STATE, _FAILED_STATE, _CANCELLED_STATE}

----------------------------------------------------------------------------
(* Bounds and input domains.                                               *)

MaxConfigs == 2      \* configs the transfer service holds at most

None == "None"       \* Python's None for an optional string argument
NoParams == <<>>     \* Python's None for the params argument
NoName == <<>>       \* Python's None for the display name argument

\* (merchant_id, destination_dataset, dataset_location)
MerchantArgs == { <<"m1", "d1", "us">>, <<"m2", "d1", "us">> }
\* (customer_id, destination_dataset, dataset_location)
AdsArgs == { <<"c1", "d1", "us">> }
BackfillDays == {-1, 0, 2}
\* (name, dataset_location, query_string)
QueryArgs == { <<"n1", "us", "q1">>, <<"n1", "us", "q2">>, <<"n1", "eu", "q1">> }
\* The states the transfer service moves a config to as its runs end (a new
\* config is pending): one the lookup accepts and one it ignores.
RunOutcomes == {_SUCCESS_STATE, _FAILED_STATE}

\* The configs waited for, the error payloads of runs and the run lists the
\* service answers list_transfer_runs with (the first listed run is the latest).
WaitArgs == { <<1, "us">>, <<2, "eu">> }
ErrorPayloads == {"", "quota exceeded"}
Runs == [state : TransferStates, error_status : ErrorPayloads]
OlderRuns == { [state |-> _SUCCESS_STATE, error_status |-> ""],
               [state |-> _FAILED_STATE, error_status |-> "quota exceeded"] }
RunLists == {<<>>} \cup {<<r>> : r \in Runs}
                  \cup {<<r, o>> : r \in Runs, o \in OlderRuns}

\* Wall clock readings, as <<day, second of the day>>.
NoTime == <<0, 0>>
Clock == { <<10, 7>>, <<11, 0>> }
TimeLeq(a, b) == a[1] < b[1] \/ (a[1] = b[1] /\ a[2] <= b[2])
Midnight(t) == <<t[1], 0>>
MinusDays(t, d) == <<t[1] - d, t[2]>>

----------------------------------------------------------------------------
(* Requests sent to the transfer service and the authorization provider.   *)

\* answer is what the service or the provider answered, where the caller
\* acts on it.
Req(call, target) ==
  [call |-> call, target |-> target, auth |-> None,
   start |-> NoTime, end |-> NoTime, answer |-> None]

Count(reqs, call) == Cardinality({i \in 1..Len(reqs) : reqs[i].call = call})

NoArgs ==
  [id |-> None, dataset |-> None, loc |-> None, name |-> NoName,
   query |-> None, backfill |-> 0]

\* What one call did: the lookup's result (0 for None), the requests it sent in
\* order, the name of the config it returned (0 if it raised) and the error.
NoCall ==
  [op |-> "none", args |-> NoArgs, found |-> 0, reqs |-> <<>>,
   ret |-> 0, err |-> None]

----------------------------------------------------------------------------
(* cloud_data_transfer.py: lookup and update of existing configs.          *)

\* bool(x) of an optional string argument.
Truthy(s) == s # None /\ s # ""

MerchantParams(merchant_id) ==
  [merchant_id |-> merchant_id, export_products |-> TRUE,
   export_performance |-> TRUE, export_best_sellers_v2 |-> TRUE,
   export_price_competitiveness |-> TRUE, export_price_insights |-> TRUE,
   export_offer_targeting |-> TRUE]

AdsParams(customer_id) ==
  [customer_id |-> customer_id, include_pmax |-> TRUE,
   table_filter |-> _ADS_TABLES]

QueryParams(query_string) == [query |-> query_string]

\* Variant: the keys are looked for, their values are not compared.
_check_params_match_keys_only(config_params, params) ==
  IF DOMAIN params = {}
    THEN TRUE
    ELSE \A key \in DOMAIN params : key \in DOMAIN config_params

_check_params_match(config_params, params) ==
  IF DOMAIN params = {}
    THEN TRUE
    ELSE \A key \in DOMAIN params :
           key \in DOMAIN config_params /\ config_params[key] = params[key]

\* Variant: only a config whose last run succeeded is accepted.
is_valid_state_succeeded_only(state) == state = _SUCCESS_STATE

is_valid_state(state) ==
  state \in {_PENDING_STATE, _RUNNING_STATE, _SUCCESS_STATE}

\* Variant: the parameters of the config have to equal the requested ones.
ConfigMatchesEqualParams(c, data_source_id, destination_dataset_id, params, name) ==
  /\ c.data_source_id = data_source_id
  /\ (Truthy(destination_dataset_id)
        => c.destination_dataset_id = destination_dataset_id)
  /\ (DOMAIN params # {} => c.params = params)
  /\ is_valid_state(c.state)
  /\ (name = NoName \/ name = c.display_name)

\* The body of the loop of _get_existing_transfer for one listed config.
ConfigMatches(c, data_source_id, destination_dataset_id, params, name) ==
  /\ c.data_source_id = data_source_id
  /\ (Truthy(destination_dataset_id)
        => c.destination_dataset_id = destination_dataset_id)
  /\ _check_params_match(c.params, params)
  /\ is_valid_state(c.state)
  /\ (name = NoName \/ name = c.display_name)

\* list_transfer_configs({'parent': projects/<p>/locations/<loc>}): the indices
\* of the configs of that location, in listing order.
RECURSIVE ListFrom(_, _, _)
ListFrom(cfgs, loc, i) ==
  IF i > Len(cfgs) THEN <<>>
  ELSE (IF cfgs[i].loc = loc THEN <<i>> ELSE <<>>) \o ListFrom(cfgs, loc, i + 1)

list_transfer_configs(cfgs, loc) == ListFrom(cfgs, loc, 1)

RECURSIVE FirstMatch(_, _, _, _, _, _)
FirstMatch(cfgs, listing, data_source_id, destination_dataset_id, params, name) ==
  IF listing = <<>> THEN 0
  ELSE IF ConfigMatches(cfgs[Head(listing)], data_source_id,
                        destination_dataset_id, params, name)
         THEN Head(listing)
         ELSE FirstMatch(cfgs, Tail(listing), data_source_id,
                         destination_dataset_id, params, name)

\* The index in cfgs of the config returned, 0 for None.
_get_existing_transfer(cfgs, data_source_id, dataset_location, destination_dataset_id, params, name) ==
  FirstMatch(cfgs, list_transfer_configs(cfgs, dataset_location),
             data_source_id, destination_dataset_id, params, name)

\* What a method (or a part of one) did: the configs afterwards, the requests
\* sent in order, the name of the config returned (0 if it raised), the error.
Result(cfgs, reqs, ret, err) ==
  [cfgs |-> cfgs, found |-> 0, reqs |-> reqs, ret |-> ret, err |-> err]

\* Variant: the update is sent without comparing the parameters first.
_update_existing_transfer_always(cfgs, i, params) ==
  Result([cfgs EXCEPT ![i].params = params],
         <<Req("update_transfer_config", cfgs[i].name)>>, cfgs[i].name, None)

_update_existing_transfer(cfgs, i, params) ==
  IF _check_params_match(cfgs[i].params, params)
    THEN Result(cfgs, <<>>, cfgs[i].name, None)
    ELSE Result([cfgs EXCEPT ![i].params = params],
                <<Req("update_transfer_config", cfgs[i].name)>>,
                cfgs[i].name, None)

----------------------------------------------------------------------------
(* cloud_data_transfer.py: creation of configs.                            *)

\* create_transfer_config as the service performs it: the new config gets a
\* fresh name, is listed last and starts in state pending.
NewConfig(cfgs, loc, input_config) ==
  [name |-> Len(cfgs) + 1,
   loc |-> loc,
   data_source_id |-> input_config.data_source_id,
   destination_dataset_id |-> input_config.destination_dataset_id,
   display_name |-> input_config.display_name,
   params |-> input_config.params,
   schedule |-> input_config.schedule,
   data_refresh_window_days |-> input_config.data_refresh_window_days,
   state |-> _PENDING_STATE]

\* Variant: the authorization code is requested whatever the check answers.
CreateTransferAlwaysAuthorizes(cfgs, loc, input_config, no_code, has_valid_creds, data_source_ok, auth_ok) ==
  LET check ==
        <<[Req("check_valid_creds", 0) EXCEPT
             !.answer = IF has_valid_creds THEN "has_valid_creds"
                        ELSE "no_valid_creds"]>>
      source ==
        <<[Req("get_data_source", 0) EXCEPT
             !.answer = IF data_source_ok THEN "data_source" ELSE "empty"]>>
      code ==
        <<[Req("retrieve_authorization_code", 0) EXCEPT
             !.answer = IF auth_ok THEN "code" ELSE "error"]>>
      new == NewConfig(cfgs, loc, input_config)
      create(auth) == <<[Req("create_transfer_config", new.name) EXCEPT !.auth = auth]>>
  IN  IF ~data_source_ok
        THEN Result(cfgs, check \o source, 0, "AssertionError")
      ELSE IF auth_ok
        THEN Result(Append(cfgs, new), check \o source \o code \o create("code"),
                    new.name, None)
        ELSE Result(cfgs, check \o source \o code, 0, "AuthorizationError")

\* The common tail of the three creating methods: _check_valid_credentials,
\* then, if there are none, _get_authorization_code (get_data_source, the
\* assertion on the data source, retrieve_authorization_code), then
\* create_transfer_config. no_code is the authorization_code sent when the
\* credentials are valid; data_source_ok is the truth value of the DataSource
\* the service answered with (a message with no field set is false).
CreateTransfer(cfgs, loc, input_config, no_code, has_valid_creds, data_source_ok, auth_ok) ==
  LET check ==
        <<[Req("check_valid_creds", 0) EXCEPT
             !.answer = IF has_valid_creds THEN "has_valid_creds"
                        ELSE "no_valid_creds"]>>
      source ==
        <<[Req("get_data_source", 0) EXCEPT
             !.answer = IF data_source_ok THEN "data_source" ELSE "empty"]>>
      code ==
        <<[Req("retrieve_authorization_code", 0) EXCEPT
             !.answer = IF auth_ok THEN "code" ELSE "error"]>>
      new == NewConfig(cfgs, loc, input_config)
      create(auth) == <<[Req("create_transfer_config", new.name) EXCEPT !.auth = auth]>>
  IN  IF has_valid_creds
        THEN Result(Append(cfgs, new), check \o create(no_code), new.name, None)
      ELSE IF ~data_source_ok
        THEN Result(cfgs, check \o source, 0, "AssertionError")
      ELSE IF auth_ok
        THEN Result(Append(cfgs, new), check \o source \o code \o create("code"),
                    new.name, None)
        ELSE Result(cfgs, check \o source \o code, 0, "AuthorizationError")

\* A method's result with the lookup it started with.
WithLookup(r, found) ==
  [r EXCEPT !.found = found, !.reqs = <<Req("list_transfer_configs", 0)>> \o @]

create_merchant_center_transfer(cfgs, merchant_id, destination_dataset, dataset_location, has_valid_creds, data_source_ok, auth_ok) ==
  LET parameters == MerchantParams(merchant_id)
      found == _get_existing_transfer(cfgs, _MERCHANT_CENTER_ID, dataset_location,
                                      destination_dataset, parameters, NoName)
      input_config ==
        [display_name |-> <<"Merchant Center Transfer - ", merchant_id>>,
         data_source_id |-> _MERCHANT_CENTER_ID,
         destination_dataset_id |-> destination_dataset,
         params |-> parameters,
         schedule |-> "",
         data_refresh_window_days |-> 0]
  IN  IF found # 0
        THEN WithLookup(_update_existing_transfer(cfgs, found, parameters), found)
        ELSE WithLookup(CreateTransfer(cfgs, dataset_location, input_config, None,
                                       has_valid_creds, data_source_ok, auth_ok), 0)

create_google_ads_transfer(cfgs, customer_id, destination_dataset, dataset_location, backfill_days, has_valid_creds, data_source_ok, auth_ok, now1, now2) ==
  LET parameters == AdsParams(customer_id)
      found == _get_existing_transfer(cfgs, _GOOGLE_ADS_ID, dataset_location,
                                      destination_dataset, parameters, NoName)
      input_config ==
        [display_name |-> <<"Google Ads Transfer - ", customer_id>>,
         data_source_id |-> _GOOGLE_ADS_ID,
         destination_dataset_id |-> destination_dataset,
         params |-> parameters,
         schedule |-> "",
         data_refresh_window_days |-> 1]
      start_time == Midnight(MinusDays(now1, backfill_days))
      end_time == Midnight(now2)
      \* The code after create_transfer_config returned transfer_config.
      Backfill(created) ==
        IF created.err = None /\ backfill_days # 0
          THEN [created EXCEPT !.reqs =
                  Append(@, [Req("schedule_transfer_runs", created.ret)
                               EXCEPT !.start = start_time, !.end = end_time])]
          ELSE created
  IN  IF found # 0
        THEN WithLookup(Result(cfgs, <<>>, cfgs[found].name, None), found)
        ELSE WithLookup(Backfill(CreateTransfer(cfgs, dataset_location, input_config,
                                                None, has_valid_creds,
                                                data_source_ok, auth_ok)), 0)

schedule_query(cfgs, name, dataset_location, query_string, has_valid_creds, data_source_ok, auth_ok, now) ==
  LET found == _get_existing_transfer(cfgs, SCHEDULED_QUERY_ID, dataset_location,
                                      None, NoParams, name)
      parameters == QueryParams(query_string)
      \* The code after _update_existing_transfer returned updated_transfer_config.
      ManualRun(updated) ==
        [updated EXCEPT !.reqs =
           Append(@, [Req("start_manual_transfer_runs", updated.ret)
                        EXCEPT !.start = now])]
      input_config ==
        [display_name |-> name,
         data_source_id |-> SCHEDULED_QUERY_ID,
         destination_dataset_id |-> "",
         params |-> parameters,
         schedule |-> "every 24 hours",
         data_refresh_window_days |-> 0]
  IN  IF found # 0
        THEN WithLookup(ManualRun(_update_existing_transfer(cfgs, found, parameters)),
                        found)
        ELSE WithLookup(CreateTransfer(cfgs, dataset_location, input_config, "",
                                       has_valid_creds, data_source_ok, auth_ok), 0)

----------------------------------------------------------------------------
(* The transfer manager driven by a single-threaded caller, and the        *)
(* transfer service changing the state of configs between calls.           *)

Returned(op, args, r) ==
  [op |-> op, args |-> args, found |-> r.found, reqs |-> r.reqs,
   ret |-> r.ret, err |-> r.err]

\* The lookup each method starts with, for the choice of the answers it needs.
MerchantLookup(a) ==
  _get_existing_transfer(configs, _MERCHANT_CENTER_ID, a[3], a[2],
                         MerchantParams(a[1]), NoName)
AdsLookup(a) ==
  _get_existing_transfer(configs, _GOOGLE_ADS_ID, a[3], a[2], AdsParams(a[1]), NoName)
QueryLookup(a) ==
  _get_existing_transfer(configs, SCHEDULED_QUERY_ID, a[2], None, NoParams, <<a[1]>>)

\* The answers of the environment a call consumes:
\* <<has_valid_creds, data_source_ok, auth_ok>> on the create path (none is
\* asked for when a config is reused; the data source and the provider are
\* asked only without valid credentials, the provider only with a data source
\* that is not empty), and the clock readings where the call reads the clock.
CredChoices(found) ==
  IF found # 0 THEN {<<TRUE, TRUE, TRUE>>}
  ELSE {<<TRUE, TRUE, TRUE>>, <<FALSE, TRUE, TRUE>>, <<FALSE, TRUE, FALSE>>,
        <<FALSE, FALSE, TRUE>>}

ClockChoices(reads) ==
  IF reads THEN {p \in Clock \X Clock : TimeLeq(p[1], p[2])}
  ELSE {<<NoTime, NoTime>>}

\* The step of the caller: the call returned r.
Return(op, args, r) ==
  /\ Len(r.cfgs) <= MaxConfigs
  /\ configs' = r.cfgs
  /\ last' = Returned(op, args, r)
  /\ UNCHANGED <<poll, setupVars, lookup>>

CallMerchant ==
  \E a \in MerchantArgs :
    \E found \in {MerchantLookup(a)} :
      \E c \in CredChoices(found) :
        \E r \in {create_merchant_center_transfer(configs, a[1], a[2], a[3],
                                                  c[1], c[2], c[3])} :
          Return("create_merchant_center_transfer",
                 [NoArgs EXCEPT !.id = a[1], !.dataset = a[2], !.loc = a[3]], r)

CallAds ==
  \E a \in AdsArgs, days \in BackfillDays :
    \E found \in {AdsLookup(a)} :
      \E c \in CredChoices(found) :
        \E now \in ClockChoices(found = 0 /\ (c[1] \/ (c[2] /\ c[3])) /\ days # 0) :
          \E r \in {create_google_ads_transfer(configs, a[1], a[2], a[3], days,
                                               c[1], c[2], c[3], now[1], now[2])} :
            Return("create_google_ads_transfer",
                   [NoArgs EXCEPT !.id = a[1], !.dataset = a[2], !.loc = a[3],
                                  !.backfill = days], r)

CallScheduleQuery ==
  \E a \in QueryArgs :
    \E found \in {QueryLookup(a)} :
      \E c \in CredChoices(found) :
        \E now \in (IF found # 0 THEN Clock ELSE {NoTime}) :
          \E r \in {schedule_query(configs, <<a[1]>>, a[2], a[3],
                                   c[1], c[2], c[3], now)} :
            Return("schedule_query",
                   [NoArgs EXCEPT !.name = <<a[1]>>, !.loc = a[2], !.query = a[3]], r)

\* The service moves a config to another lifecycle state (its runs progress).
TransferStateChange ==
  \E i \in 1..Len(configs), s \in RunOutcomes :
    /\ s # configs[i].state
    /\ configs' = [configs EXCEPT ![i].state = s]
    /\ UNCHANGED <<last, poll, setupVars, lookup>>

----------------------------------------------------------------------------
(* cloud_data_transfer.py: wait_for_transfer_completion, one step per      *)
(* inspection of the run list and one per sleep.                           *)

NoRun == [state |-> 0, error_status |-> None]
NoError == [type |-> None, kind |-> None, config |-> 0, payload |-> None]

DataTransferError(kind, config, payload) ==
  [type |-> "DataTransferError", kind |-> kind, config |-> config,
   payload |-> payload]

\* pc: where the call is; inspections, in_progress, sleeps, slept: how often the
\* run list was inspected, how often the latest run was found pending or
\* running, how often and how long (seconds) the call slept.
PollIdle ==
  [pc |-> "idle", config |-> 0, loc |-> None, poll_counter |-> 0,
   inspections |-> 0, in_progress |-> 0, sleeps |-> 0, slept |-> 0,
   latest |-> NoRun, outcome |-> "none", error |-> NoError]

\* for transfer in response: latest_transfer = transfer; break
LatestTransfer(response) == IF response = <<>> THEN NoRun ELSE Head(response)

\* Variant: an empty run list is taken for a run still to come.
VerdictWaitsForRuns(latest_transfer) ==
  IF latest_transfer = NoRun THEN "sleep"
  ELSE IF latest_transfer.state = _SUCCESS_STATE THEN "return"
  ELSE IF latest_transfer.state = _FAILED_STATE
          \/ latest_transfer.state = _CANCELLED_STATE THEN "raise"
  ELSE "sleep"

\* Variant: a succeeded run is not recognised.
VerdictMissingSuccess(latest_transfer) ==
  IF latest_transfer = NoRun THEN "return"
  ELSE IF latest_transfer.state = _FAILED_STATE
          \/ latest_transfer.state = _CANCELLED_STATE THEN "raise"
  ELSE "sleep"

\* Variant: a cancelled run is taken to be in progress.
VerdictMissingCancelled(latest_transfer) ==
  IF latest_transfer = NoRun THEN "return"
  ELSE IF latest_transfer.state = _SUCCESS_STATE THEN "return"
  ELSE IF latest_transfer.state = _FAILED_STATE THEN "raise"
  ELSE "sleep"

\* Lines 99-113: what the loop does with the latest run.
Verdict(latest_transfer) ==
  IF latest_transfer = NoRun THEN "return"
  ELSE IF latest_transfer.state = _SUCCESS_STATE THEN "return"
  ELSE IF latest_transfer.state = _FAILED_STATE
          \/ latest_transfer.state = _CANCELLED_STATE THEN "raise"
  ELSE "sleep"

\* Variant: the ceiling is compared with > instead of >=.
TakingTooLongStrict(poll_counter) == poll_counter > _MAX_POLL_COUNTER

\* Line 122: the check after the sleep.
TakingTooLong(poll_counter) == poll_counter >= _MAX_POLL_COUNTER

\* Lines 91-113: list_transfer_runs answered response.
AfterInspect(p, response) ==
  LET latest_transfer == LatestTransfer(response)
      verdict == Verdict(latest_transfer)
      seen == [p EXCEPT !.inspections = @ + 1, !.latest = latest_transfer]
  IN  IF verdict = "return"
        THEN [seen EXCEPT !.pc = "done", !.outcome = "returned"]
      ELSE IF verdict = "raise"
        THEN [seen EXCEPT !.pc = "done", !.outcome = "raised",
                          !.error = DataTransferError("not successful", p.config,
                                                      latest_transfer.error_status)]
        ELSE [seen EXCEPT !.pc = "sleep", !.in_progress = @ + 1]

\* Lines 120-128: time.sleep, the counter, the ceiling.
AfterSleep(p) ==
  LET slept == [p EXCEPT !.sleeps = @ + 1, !.slept = @ + _SLEEP_SECONDS,
                         !.poll_counter = @ + 1]
  IN  IF TakingTooLong(slept.poll_counter)
        THEN [slept EXCEPT !.pc = "done", !.outcome = "raised",
                           !.error = DataTransferError("taking too long", p.config, None)]
        ELSE [slept EXCEPT !.pc = "inspect"]

WaitStart ==
  /\ poll.pc \in {"idle", "done"}
  /\ \E a \in WaitArgs :
       poll' = [PollIdle EXCEPT !.pc = "inspect", !.config = a[1], !.loc = a[2]]
  /\ UNCHANGED <<transferVars, setupVars, lookup>>

WaitInspect ==
  /\ poll.pc = "inspect"
  /\ \E response \in RunLists : poll' = AfterInspect(poll, response)
  /\ UNCHANGED <<transferVars, setupVars, lookup>>

WaitSleep ==
  /\ poll.pc = "sleep"
  /\ poll' = AfterSleep(poll)
  /\ UNCHANGED <<transferVars, setupVars, lookup>>

----------------------------------------------------------------------------
(* cloud_bigquery.py: create_dataset_if_not_exists.                        *)

\* (project_id, dataset_id, dataset_location)
DatasetArgs == { <<"p1", "d1", "us">>, <<"p1", "d1", "eu">>, <<"p1", "d2", "us">> }
\* What BigQuery does with get_dataset and with create_dataset: it answers as
\* its stored state has it, or the request fails.
FetchAnswers == {"answers", "Forbidden"}
CreateAnswers == {"answers", "Forbidden"}

\* f'{project_id}.{dataset_id}'
fully_qualified_dataset_id(project_id, dataset_id) == <<project_id, ".", dataset_id>>

\* client.get_dataset: "found", or the exception raised.
get_dataset(dsets, id, answer) ==
  IF answer # "answers" THEN answer
  ELSE IF \E d \in dsets : d.id = id THEN "found"
  ELSE "NotFound"

\* client.create_dataset: the datasets afterwards and the exception raised.
create_dataset(dsets, id, location, answer) ==
  IF answer # "answers" THEN [datasets |-> dsets, err |-> answer]
  ELSE IF \E d \in dsets : d.id = id THEN [datasets |-> dsets, err |-> "Conflict"]
  ELSE [datasets |-> dsets \cup {[id |-> id, location |-> location]}, err |-> None]

\* Variant: every failure of the fetch is taken for not-found.
create_dataset_if_any_error(dsets, project_id, dataset_id, dataset_location, fetch, create) ==
  LET id == fully_qualified_dataset_id(project_id, dataset_id)
      got == get_dataset(dsets, id, fetch)
      made == create_dataset(dsets, id, dataset_location, create)
  IN  IF got = "found"
        THEN [datasets |-> dsets, fetched |-> got, reqs |-> <<"get_dataset">>,
              err |-> None]
        ELSE [datasets |-> made.datasets, fetched |-> got,
              reqs |-> <<"get_dataset", "create_dataset">>, err |-> made.err]

\* The datasets afterwards, what the fetch gave, the requests sent in order and
\* the exception the call ended with.
create_dataset_if_not_exists(dsets, project_id, dataset_id, dataset_location, fetch, create) ==
  LET id == fully_qualified_dataset_id(project_id, dataset_id)
      got == get_dataset(dsets, id, fetch)
      made == create_dataset(dsets, id, dataset_location, create)
  IN  IF got = "found"
        THEN [datasets |-> dsets, fetched |-> got, reqs |-> <<"get_dataset">>,
              err |-> None]
      ELSE IF got = "NotFound"
        THEN [datasets |-> made.datasets, fetched |-> got,
              reqs |-> <<"get_dataset", "create_dataset">>, err |-> made.err]
        ELSE [datasets |-> dsets, fetched |-> got, reqs |-> <<"get_dataset">>,
              err |-> got]

NoProvision ==
  [args |-> <<>>, before |-> {}, fetched |-> None, reqs |-> <<>>, err |-> None]

\* create_dataset is reached only after a fetch that answered not-found.
CreateChoices(a, fetch) ==
  IF get_dataset(datasets, fully_qualified_dataset_id(a[1], a[2]), fetch) = "NotFound"
    THEN CreateAnswers
    ELSE {"answers"}

CallCreateDataset ==
  \E a \in DatasetArgs, fetch \in FetchAnswers :
    \E create \in CreateChoices(a, fetch) :
      \E r \in {create_dataset_if_not_exists(datasets, a[1], a[2], a[3],
                                             fetch, create)} :
        /\ datasets' = r.datasets
        /\ provision' = [prev |-> provision.last,
                         last |-> [args |-> a, before |-> datasets,
                                   fetched |-> r.fetched, reqs |-> r.reqs,
                                   err |-> r.err]]
        /\ UNCHANGED <<transferVars, poll, queries, setup, lookup>>

----------------------------------------------------------------------------
(* cloud_bigquery.py: execute_queries.                                     *)

_MAIN_WORKFLOW_SQL == "sql/main_workflow.sql"

sql_files == <<"sql/inventory.sql", "sql/best_sellers.sql", _MAIN_WORKFLOW_SQL>>

\* What happens to one script: all three calls of the loop body return, or the
\* named one raises (configure_sql: the script cannot be read or formatted;
\* query: the submission is refused; result: the job fails).
ScriptOutcomes == {"ok", "configure_sql", "query", "result"}
ScriptFates == [{sql_files[i] : i \in 1..Len(sql_files)} -> ScriptOutcomes]

Event(call, sql_file) == [call |-> call, sql_file |-> sql_file]
NoScriptError == Event(None, None)

\* Variant: a failing script is logged and the loop goes on.
RECURSIVE execute_queries_continuing(_, _, _)
execute_queries_continuing(files, fate, events) ==
  IF files = <<>> THEN [events |-> events, err |-> NoScriptError]
  ELSE LET sql_file == Head(files)
           resolved == Append(events, Event("configure_sql", sql_file))
           submitted == Append(resolved, Event("query", sql_file))
           completed == Append(submitted, Event("result", sql_file))
           Logged(evs) == Append(evs, Event("logging.exception", sql_file))
       IN  IF fate[sql_file] = "configure_sql"
             THEN execute_queries_continuing(Tail(files), fate, Logged(resolved))
           ELSE IF fate[sql_file] = "query"
             THEN execute_queries_continuing(Tail(files), fate, Logged(submitted))
           ELSE IF fate[sql_file] = "result"
             THEN execute_queries_continuing(Tail(files), fate, Logged(completed))
             ELSE execute_queries_continuing(Tail(files), fate, completed)

\* The loop over the scripts still to run: the calls made in order (each is
\* recorded when it is made) and the exception the loop ended with.
RECURSIVE ExecuteFrom(_, _, _)
ExecuteFrom(files, fate, events) ==
  IF files = <<>> THEN [events |-> events, err |-> NoScriptError]
  ELSE LET sql_file == Head(files)
           resolved == Append(events, Event("configure_sql", sql_file))
           submitted == Append(resolved, Event("query", sql_file))
           completed == Append(submitted, Event("result", sql_file))
           Logged(evs) == Append(evs, Event("logging.exception", sql_file))
       IN  IF fate[sql_file] = "configure_sql"
             THEN [events |-> Logged(resolved), err |-> Event("configure_sql", sql_file)]
           ELSE IF fate[sql_file] = "query"
             THEN [events |-> Logged(submitted), err |-> Event("query", sql_file)]
           ELSE IF fate[sql_file] = "result"
             THEN [events |-> Logged(completed), err |-> Event("result", sql_file)]
             ELSE ExecuteFrom(Tail(files), fate, completed)

execute_queries(fate) == ExecuteFrom(sql_files, fate, <<>>)

NoQueries ==
  [called |-> FALSE, fate |-> [f \in {} |-> "ok"], events |-> <<>>,
   err |-> NoScriptError]

CallExecuteQueries ==
  \E fate \in ScriptFates :
    \E r \in {execute_queries(fate)} :
      /\ queries' = [called |-> TRUE, fate |-> fate, events |-> r.events,
                     err |-> r.err]
      /\ UNCHANGED <<transferVars, poll, datasets, provision, setup, lookup>>

----------------------------------------------------------------------------
(* cloud_env_setup.py: main.                                               *)

\* Parameters of CloudDataTransferUtils.__init__ besides self, and the default
\* of backfill_days of create_google_ads_transfer.
InitParams == 1
DefaultBackfillDays == 30

_DEFAULT_DATASET_ID == "merch_intel"
_DEFAULT_DATASET_LOCATION == "us"

\* The parsed command line. An ads customer id is a string of digits and
\* dashes, character by character.
MainArgs ==
  { [project_id |-> "p1", dataset_id |-> _DEFAULT_DATASET_ID,
     dataset_location |-> _DEFAULT_DATASET_LOCATION, merchant_id |-> "m1",
     ads_customer_id |-> id, service_account_email |-> email] :
      id \in { <<"1", "2", "-", "3">>, <<"1", "2", "3">> },
      email \in { None, "sa@p1.iam" } }

\* str.replace('-', '')
RemoveDashes(id) == SelectSeq(id, LAMBDA char : char # "-")

\* An exception other than DataTransferError, with the call that raised it.
Raised(type, call) ==
  [type |-> type, kind |-> call, config |-> 0, payload |-> None]

\* How a wait_for_transfer_completion call ends: it returns, or it raises the
\* DataTransferError of that kind, with the error_status of the latest run in
\* its message when the run failed or was cancelled.
WaitReturned == [kind |-> "returned", payload |-> None]
WaitRaised(kind, payload) == [kind |-> kind, payload |-> payload]

\* What the collaborators of one run of main do. Every step succeeds in
\* Succeeding; each of the others differs from it in one collaborator.
Succeeding ==
  [enable_apis |-> "ok", fetch |-> "answers", create |-> "answers",
   has_valid_creds |-> TRUE, data_source_ok |-> TRUE, auth_ok |-> TRUE,
   wait_merchant |-> WaitReturned, wait_ads |-> WaitReturned,
   load_language_codes |-> "ok", load_geo_targets |-> "ok",
   fate |-> [f \in {sql_files[i] : i \in 1..Len(sql_files)} |-> "ok"],
   get_main_workflow_sql |-> "ok", now |-> <<10, 7>>]

MainOracles ==
  { Succeeding,
    [Succeeding EXCEPT !.enable_apis = "HttpError"],
    [Succeeding EXCEPT !.fetch = "Forbidden"],
    [Succeeding EXCEPT !.has_valid_creds = FALSE],
    [Succeeding EXCEPT !.has_valid_creds = FALSE, !.auth_ok = FALSE],
    [Succeeding EXCEPT !.has_valid_creds = FALSE, !.data_source_ok = FALSE],
    [Succeeding EXCEPT !.wait_merchant = WaitRaised("taking too long", None)],
    [Succeeding EXCEPT !.wait_ads = WaitRaised("not successful", "quota exceeded")] }
  \cup { [Succeeding EXCEPT !.wait_merchant = WaitRaised("not successful", payload)] :
           payload \in ErrorPayloads }
  \cup {
    [Succeeding EXCEPT !.load_geo_targets = "BadRequest"],
    [Succeeding EXCEPT !.fate["sql/best_sellers.sql"] = "result"] }

\* CloudDataTransferUtils(*ctor_args): the exception of the constructor call.
CloudDataTransferUtils(ctor_args) ==
  IF Len(ctor_args) # InitParams
    THEN Raised("TypeError", "CloudDataTransferUtils.__init__")
    ELSE NoError

\* The error of a step that ended with exception err ("ok" and None: none).
StepError(err, call) ==
  IF err \in {"ok", None} THEN NoError ELSE Raised(err, call)

\* The calls of main after the constructor, in the order of its statements.
Statements ==
  <<"enable_apis", "create_dataset_if_not_exists",
    "create_merchant_center_transfer", "create_google_ads_transfer",
    "wait_for_transfer_completion(merchant_center_config)",
    "wait_for_transfer_completion(ads_config)",
    "load_language_codes", "load_geo_targets", "execute_queries",
    "get_main_workflow_sql", "schedule_query">>

\* One statement of main, from the locals s: the locals afterwards, with the
\* exception it raised.
Statement(step, s, args, o) ==
  LET ads_customer_id == RemoveDashes(args.ads_customer_id)
  IN  CASE step = "enable_apis" ->
             [s EXCEPT !.error = StepError(o.enable_apis, step)]
        [] step = "create_dataset_if_not_exists" ->
             LET r == create_dataset_if_not_exists(s.datasets, args.project_id,
                        args.dataset_id, args.dataset_location, o.fetch, o.create)
             IN  [s EXCEPT !.datasets = r.datasets, !.error = StepError(r.err, step)]
        [] step = "create_merchant_center_transfer" ->
             LET r == create_merchant_center_transfer(s.cfgs, args.merchant_id,
                        args.dataset_id, args.dataset_location,
                        o.has_valid_creds, o.data_source_ok, o.auth_ok)
             IN  [s EXCEPT !.cfgs = r.cfgs, !.merchant_center_config = r.ret,
                           !.error = StepError(r.err, step)]
        [] step = "create_google_ads_transfer" ->
             LET r == create_google_ads_transfer(s.cfgs, ads_customer_id,
                        args.dataset_id, args.dataset_location, DefaultBackfillDays,
                        o.has_valid_creds, o.data_source_ok, o.auth_ok,
                        o.now, o.now)
             IN  [s EXCEPT !.cfgs = r.cfgs, !.ads_config = r.ret,
                           !.error = StepError(r.err, step)]
        \* try: wait_for_transfer_completion; except DataTransferError: log, raise
        [] step = "wait_for_transfer_completion(merchant_center_config)" ->
             IF o.wait_merchant = WaitReturned THEN s
             ELSE [s EXCEPT !.error = DataTransferError(o.wait_merchant.kind,
                                        s.merchant_center_config,
                                        o.wait_merchant.payload)]
        [] step = "wait_for_transfer_completion(ads_config)" ->
             IF o.wait_ads = WaitReturned THEN s
             ELSE [s EXCEPT !.error = DataTransferError(o.wait_ads.kind, s.ads_config,
                                                        o.wait_ads.payload)]
        [] step = "load_language_codes" ->
             [s EXCEPT !.error = StepError(o.load_language_codes, step)]
        [] step = "load_geo_targets" ->
             [s EXCEPT !.error = StepError(o.load_geo_targets, step)]
        [] step = "execute_queries" ->
             [s EXCEPT !.error = StepError(execute_queries(o.fate).err.call, step)]
        [] step = "get_main_workflow_sql" ->
             [s EXCEPT !.error = StepError(o.get_main_workflow_sql, step)]
        [] step = "schedule_query" ->
             LET r == schedule_query(s.cfgs,
                        <<"Main workflow - ", args.dataset_id, " - ">>
                          \o ads_customer_id,
                        args.dataset_location, "main_workflow", o.has_valid_creds,
                        o.data_source_ok, o.auth_ok, o.now)
             IN  [s EXCEPT !.cfgs = r.cfgs, !.error = StepError(r.err, step)]

\* A statement is reached: the steps started are recorded in order.
Started(s, step) == [s EXCEPT !.steps = Append(@, step)]

\* The statements still to run: an exception skips the rest.
RECURSIVE RunFrom(_, _, _, _)
RunFrom(s, steps, args, o) ==
  IF steps = <<>> \/ s.error # NoError THEN s
  ELSE CHOOSE done \in
         { RunFrom(after, Tail(steps), args, o) :
             after \in {Statement(Head(steps), Started(s, Head(steps)), args, o)} } :
         TRUE

\* The configs and datasets afterwards, the steps started in order and the
\* exception main ended with.
main(cfgs, dsets, args, o) ==
  RunFrom([cfgs |-> cfgs, datasets |-> dsets, steps |-> <<>>,
           merchant_center_config |-> 0, ads_config |-> 0,
           error |-> CloudDataTransferUtils(<<args.project_id,
                                              args.service_account_email>>)],
          Statements, args, o)

NoSetup ==
  [called |-> FALSE, args |-> <<>>, oracle |-> <<>>, before |-> <<>>,
   steps |-> <<>>, error |-> NoError, exit |-> 0]

\* One run of the program: an uncaught exception ends it with exit status 1.
CallMain ==
  \E a \in MainArgs, o \in MainOracles :
    \E r \in {main(configs, datasets, a, o)} :
      /\ Len(r.cfgs) <= MaxConfigs
      /\ configs' = r.cfgs
      /\ datasets' = r.datasets
      /\ setup' = [called |-> TRUE, args |-> a, oracle |-> o, before |-> configs,
                   steps |-> r.steps, error |-> r.error,
                   exit |-> IF r.error = NoError THEN 0 ELSE 1]
      /\ UNCHANGED <<last, poll, provision, queries, lookup>>

----------------------------------------------------------------------------
(* cloud_data_transfer.py: _get_existing_transfer called on a listing of   *)
(* the transfer service.                                                   *)

MaxListed == 2       \* configs in the listing at most

\* A config the service may list, and the ones that differ from it in one
\* field: data source, dataset, parameters (another value, an extra key, a
\* missing key), display name, state, location.
ListedConfig ==
  [name |-> 0, loc |-> "us", data_source_id |-> _MERCHANT_CENTER_ID,
   destination_dataset_id |-> "d1", display_name |-> <<"n1">>,
   params |-> [k1 |-> "v1"], schedule |-> "", data_refresh_window_days |-> 0,
   state |-> _SUCCESS_STATE]

ListedConfigs ==
  { ListedConfig,
    [ListedConfig EXCEPT !.data_source_id = _GOOGLE_ADS_ID],
    [ListedConfig EXCEPT !.destination_dataset_id = "d2"],
    [ListedConfig EXCEPT !.params = [k1 |-> "v2"]],
    [ListedConfig EXCEPT !.params = [k1 |-> "v1", k2 |-> "v2"]],
    [ListedConfig EXCEPT !.params = [k2 |-> "v2"]],
    [ListedConfig EXCEPT !.display_name = <<"n2">>],
    [ListedConfig EXCEPT !.loc = "eu"] }
  \cup { [ListedConfig EXCEPT !.state = state] : state \in TransferStates }

Listings == UNION { [1..n -> ListedConfigs] : n \in 0..MaxListed }

\* The arguments of the lookup: data_source_id, dataset_location,
\* destination_dataset_id, params, name.
LookupArgs ==
  [data_source_id : {_MERCHANT_CENTER_ID, _GOOGLE_ADS_ID},
   dataset_location : {"us"},
   destination_dataset_id : {None, "", "d1"},
   params : {NoParams, [k1 |-> "v1"], [k1 |-> "v1", k2 |-> "v2"]},
   name : {NoName, <<"n1">>}]

NoLookup == [called |-> FALSE, args |-> <<>>, found |-> 0]

CallGetExistingTransfer ==
  /\ ~lookup.called
  /\ \E a \in LookupArgs :
       lookup' = [called |-> TRUE, args |-> a,
                  found |-> _get_existing_transfer(configs, a.data_source_id,
                              a.dataset_location, a.destination_dataset_id,
                              a.params, a.name)]
  /\ UNCHANGED <<transferVars, poll, setupVars>>

----------------------------------------------------------------------------
(* The specifications.                                                     *)

Init ==
  /\ configs = <<>>
  /\ last = NoCall
  /\ poll = PollIdle
  /\ datasets = {}
  /\ provision = [prev |-> NoProvision, last |-> NoProvision]
  /\ queries = NoQueries
  /\ setup = NoSetup
  /\ lookup = NoLookup

\* The transfer manager and the transfer service.
Next ==
  \/ CallMerchant
  \/ CallAds
  \/ CallScheduleQuery
  \/ TransferStateChange

Spec == Init /\ [][Next]_vars

\* The transfer poller and the runs the service reports.
NextPoll ==
  \/ WaitStart
  \/ WaitInspect
  \/ WaitSleep

SpecPoll == Init /\ [][NextPoll]_vars

\* The dataset provisioner and BigQuery's datasets.
NextProvision == CallCreateDataset

SpecProvision == Init /\ [][NextProvision]_vars

\* The orchestrator and the query runner.
NextSetup ==
  \/ CallExecuteQueries
  \/ CallMain

SpecSetup == Init /\ [][NextSetup]_vars

\* The scheduled-query configs the service may hold when schedule_query is
\* first called: of the name asked for or of another, in any state.
ScheduledConfig(display_name, query_string, state) ==
  [NewConfig(<<>>, "us",
             [display_name |-> <<display_name>>,
              data_source_id |-> SCHEDULED_QUERY_ID,
              destination_dataset_id |-> "",
              params |-> QueryParams(query_string),
              schedule |-> "every 24 hours",
              data_refresh_window_days |-> 0])
     EXCEPT !.state = state]

ScheduledListings ==
  {<<>>} \cup { <<ScheduledConfig("n2", "q1", state)>> : state \in TransferStates }
         \cup { <<ScheduledConfig("n1", "q2", state)>> : state \in TransferStates }

InitQuery ==
  /\ configs \in ScheduledListings
  /\ last = NoCall
  /\ poll = PollIdle
  /\ datasets = {}
  /\ provision = [prev |-> NoProvision, last |-> NoProvision]
  /\ queries = NoQueries
  /\ setup = NoSetup
  /\ lookup = NoLookup

\* The query scheduler and the transfer service.
NextQuery ==
  \/ CallScheduleQuery
  \/ TransferStateChange

SpecQuery == InitQuery /\ [][NextQuery]_vars

\* The lookup on any listing the transfer service may answer with.
InitLookup ==
  /\ configs \in Listings
  /\ last = NoCall
  /\ poll = PollIdle
  /\ datasets = {}
  /\ provision = [prev |-> NoProvision, last |-> NoProvision]
  /\ queries = NoQueries
  /\ setup = NoSetup
  /\ lookup = NoLookup

NextLookup == CallGetExistingTransfer

SpecLookup == InitLookup /\ [][NextLookup]_vars

----------------------------------------------------------------------------
(* Vocabulary of the properties of the transfer manager.                   *)

Creates(reqs) == Count(reqs, "create_transfer_config")
Updates(reqs) == Count(reqs, "update_transfer_config")

\* A step of the caller: a call returned. (The service's steps leave last alone;
\* a call that changes nothing and returns what the previous one did stutters.)
Called(op) == last' # last /\ last'.op = op

CreatingOps == {"create_merchant_center_transfer", "create_google_ads_transfer"}
DataSourceOf(op) ==
  IF op = "create_merchant_center_transfer" THEN _MERCHANT_CENTER_ID ELSE _GOOGLE_ADS_ID
ParamsOf(op, args) ==
  IF op = "create_merchant_center_transfer" THEN MerchantParams(args.id)
  ELSE AdsParams(args.id)

\* Active as the invariant of the data model has it: not failed, not cancelled.
Active(c) == c.state \notin {_FAILED_STATE, _CANCELLED_STATE}

\* Config i is a config of the call's location, data source and dataset.
SameTarget(c, op, args) ==
  /\ c.loc = args.loc
  /\ c.data_source_id = DataSourceOf(op)
  /\ c.destination_dataset_id = args.dataset

Min(S) == CHOOSE x \in S : \A y \in S : x <= y

----------------------------------------------------------------------------
(* C1: create_merchant_center_transfer, called when an active config of    *)
(* the same data source and destination dataset exists whose stored        *)
(* parameters differ from the newly built ones (and none with the new      *)
(* ones), sends exactly one update request, no create request, and returns *)
(* the existing config (same name).                                        *)
C1_UpdatesChangedParams ==
  [][ \A i \in 1..Len(configs) :
        ( /\ Called("create_merchant_center_transfer")
          /\ Active(configs[i])
          /\ SameTarget(configs[i], last'.op, last'.args)
          /\ configs[i].params # MerchantParams(last'.args.id)
          /\ \A j \in 1..Len(configs) :
               SameTarget(configs[j], last'.op, last'.args)
                 => configs[j].params # MerchantParams(last'.args.id) )
        => ( /\ Updates(last'.reqs) = 1
             /\ Creates(last'.reqs) = 0
             /\ \E k \in 1..Len(configs) :
                  /\ SameTarget(configs[k], last'.op, last'.args)
                  /\ last'.ret = configs[k].name ) ]_vars

----------------------------------------------------------------------------
(* C2: a creating call repeated with identical arguments.                  *)

\* The step is the second of two calls of op in sequence with identical
\* arguments, the first having returned a config that is in a state the lookup
\* accepts when the second call is made.
SecondCall(op) ==
  /\ last.op = op
  /\ last.err = None
  /\ Called(op)
  /\ last'.args = last.args
  /\ is_valid_state(configs[last.ret].state)

\* The configs listed before the first call's config that the lookup of the
\* second call accepts as well.
EarlierMatches(op) ==
  { j \in 1..(last.ret - 1) :
      /\ configs[j].loc = last.args.loc
      /\ ConfigMatches(configs[j], DataSourceOf(op), last.args.dataset,
                       ParamsOf(op, last.args), NoName) }

(* C2 as stated: if the config created by the first call is pending,       *)
(* running or succeeded at the second call, the second call returns the    *)
(* same config and sends no create and no update request.                  *)
C2_SecondCallSameConfig ==
  [][ \A op \in CreatingOps :
        (SecondCall(op) /\ Creates(last.reqs) = 1)
        => ( /\ last'.ret = last.ret
             /\ Creates(last'.reqs) = 0
             /\ Updates(last'.reqs) = 0 ) ]_vars

(* C2 amended: the second call sends no create and no update request and   *)
(* returns without error an active config of the same location, data       *)
(* source, dataset and parameters; that config is the first call's config  *)
(* unless another such config listed before it is in an accepted state at  *)
(* the second call, and then it is the first of those.                     *)
C2_SecondCallReuses ==
  [][ \A op \in CreatingOps :
        SecondCall(op)
        => ( /\ Creates(last'.reqs) = 0
             /\ Updates(last'.reqs) = 0
             /\ last'.err = None
             /\ configs' = configs
             /\ SameTarget(configs[last'.ret], op, last.args)
             /\ configs[last'.ret].params = ParamsOf(op, last.args)
             /\ is_valid_state(configs[last'.ret].state)
             /\ last'.ret = IF EarlierMatches(op) = {} THEN last.ret
                            ELSE Min(EarlierMatches(op)) ) ]_vars

\* A second call has reused the config of the first, which has succeeded since.
C2_Witness ==
  /\ last.op \in CreatingOps
  /\ last.found # 0
  /\ last.ret = configs[last.found].name
  /\ configs[last.found].state = _SUCCESS_STATE
  /\ Len(last.reqs) = 1

----------------------------------------------------------------------------
(* C3: at most one active config per key.                                  *)

IsQuery(c) == c.data_source_id = SCHEDULED_QUERY_ID

\* Two configs the invariant forbids to be active together.
SameKey(c, d) ==
  /\ c.data_source_id = d.data_source_id
  /\ IF IsQuery(c)
       THEN c.display_name = d.display_name
       ELSE /\ c.destination_dataset_id = d.destination_dataset_id
            /\ c.params = d.params

OnePerKey(cfgs) ==
  \A i, j \in 1..Len(cfgs) :
    (i < j /\ Active(cfgs[i]) /\ Active(cfgs[j])) => ~SameKey(cfgs[i], cfgs[j])

OnePerKeyAndLocation(cfgs) ==
  \A i, j \in 1..Len(cfgs) :
    (i < j /\ Active(cfgs[i]) /\ Active(cfgs[j]) /\ cfgs[i].loc = cfgs[j].loc)
      => ~SameKey(cfgs[i], cfgs[j])

\* The service returns a failed or cancelled config to an active state.
Reactivation ==
  \E i \in 1..Len(configs) :
    /\ i <= Len(configs')
    /\ ~Active(configs[i])
    /\ Active(configs'[i])

(* C3 as stated: after any sequence of calls and state changes, at most    *)
(* one active transfer config per (data source, destination dataset,       *)
(* parameters) and at most one active scheduled query config per (data     *)
(* source, display name).                                                  *)
C3_OneActivePerKey == OnePerKey(configs)

(* C3 amended: at most one active config per key within one location is    *)
(* preserved by every call and by every state change of the service that   *)
(* does not return a failed or cancelled config to an active state.        *)
C3_CallsKeepOnePerKey ==
  [][ (OnePerKeyAndLocation(configs) /\ ~Reactivation)
        => OnePerKeyAndLocation(configs') ]_vars

\* A call has created a config next to a failed one of the same key.
C3_Witness ==
  /\ Len(configs) = 2
  /\ configs[1].loc = configs[2].loc
  /\ SameKey(configs[1], configs[2])
  /\ ~Active(configs[1])
  /\ Active(configs[2])
  /\ Creates(last.reqs) = 1
  /\ last.ret = configs[2].name

----------------------------------------------------------------------------
(* The transfer poller.                                                    *)

InProgress(run) == run.state \in {_PENDING_STATE, _RUNNING_STATE}
TimedOut(p) == p.outcome = "raised" /\ p.error.kind = "taking too long"

(* C4: a wait whose inspections all find the latest run pending or running *)
(* ends with a DataTransferError for the timeout when the poll counter     *)
(* reaches 100, after exactly 100 inspections and no 101st; the timeout is *)
(* raised only when the last inspection found the run pending or running.  *)
C4_TimeoutAfterCeiling ==
  /\ poll.inspections <= _MAX_POLL_COUNTER
  /\ poll.in_progress >= _MAX_POLL_COUNTER
       => (poll.pc = "sleep" /\ poll.sleeps = _MAX_POLL_COUNTER - 1) \/ TimedOut(poll)
  /\ poll.poll_counter >= _MAX_POLL_COUNTER => TimedOut(poll)
  /\ TimedOut(poll)
       => /\ poll.pc = "done"
          /\ poll.error.type = "DataTransferError"
          /\ poll.poll_counter = _MAX_POLL_COUNTER
          /\ poll.inspections = _MAX_POLL_COUNTER
          /\ poll.in_progress = _MAX_POLL_COUNTER
          /\ poll.sleeps = _MAX_POLL_COUNTER
          /\ InProgress(poll.latest)

\* The wait has timed out.
C4_Witness ==
  /\ TimedOut(poll)
  /\ poll.inspections = _MAX_POLL_COUNTER
  /\ poll.latest.state = _RUNNING_STATE

(* C5: if the latest run is pending or running at the first k inspections  *)
(* (k < 100) and succeeded at the next, the wait returns without error     *)
(* after exactly k sleeps of 60 seconds and k + 1 inspections.             *)
C5_SuccessAfterKSleeps ==
  poll.latest.state = _SUCCESS_STATE
    => /\ poll.pc = "done"
       /\ poll.outcome = "returned"
       /\ poll.error = NoError
       /\ poll.in_progress < _MAX_POLL_COUNTER
       /\ poll.sleeps = poll.in_progress
       /\ poll.slept = poll.in_progress * _SLEEP_SECONDS
       /\ poll.inspections = poll.in_progress + 1

\* The wait has returned at the last inspection the ceiling allows (k = 99).
C5_Witness ==
  /\ poll.outcome = "returned"
  /\ poll.latest.state = _SUCCESS_STATE
  /\ poll.in_progress = _MAX_POLL_COUNTER - 1
  /\ poll.slept = (_MAX_POLL_COUNTER - 1) * _SLEEP_SECONDS

(* C6: an inspection that finds the latest run failed or cancelled ends    *)
(* the wait there with a DataTransferError carrying that run's error       *)
(* payload: no sleep and no inspection follows (none at all when it is the *)
(* first inspection).                                                      *)
C6_FailureRaisesAtOnce ==
  poll.latest.state \in {_FAILED_STATE, _CANCELLED_STATE}
    => /\ poll.pc = "done"
       /\ poll.outcome = "raised"
       /\ poll.error = DataTransferError("not successful", poll.config,
                                         poll.latest.error_status)
       /\ poll.sleeps = poll.in_progress
       /\ poll.inspections = poll.in_progress + 1
       /\ poll.slept = poll.sleeps * _SLEEP_SECONDS

\* The first inspection found the run failed.
C6_Witness ==
  /\ poll.latest.state = _FAILED_STATE
  /\ poll.latest.error_status = "quota exceeded"
  /\ poll.inspections = 1
  /\ poll.sleeps = 0
  /\ poll.outcome = "raised"

----------------------------------------------------------------------------
(* Vocabulary of the properties of the orchestrator.                       *)

\* The steps of a complete run, in the order of the control flow.
CompleteRun ==
  <<"enable_apis", "create_dataset_if_not_exists",
    "create_merchant_center_transfer", "create_google_ads_transfer",
    "wait_for_transfer_completion(merchant_center_config)",
    "wait_for_transfer_completion(ads_config)",
    "load_language_codes", "load_geo_targets", "execute_queries",
    "schedule_query">>

\* The steps started, without the rendering of the main workflow's text.
StepsTaken == SelectSeq(setup.steps, LAMBDA step : step # "get_main_workflow_sql")

\* The collaborators let the run reach the wait on the merchant transfer.
ReachesMerchantWait(o) ==
  /\ o.enable_apis = "ok"
  /\ o.fetch = "answers" /\ o.create = "answers"
  /\ (o.has_valid_creds \/ (o.data_source_ok /\ o.auth_ok))

EveryCallSucceeds(o) ==
  /\ ReachesMerchantWait(o)
  /\ o.wait_merchant = WaitReturned /\ o.wait_ads = WaitReturned
  /\ o.load_language_codes = "ok" /\ o.load_geo_targets = "ok"
  /\ \A f \in DOMAIN o.fate : o.fate[f] = "ok"
  /\ o.get_main_workflow_sql = "ok"

\* C7: if the wait on the Merchant Center transfer ends in a DataTransferError
\* (failure, cancellation or timeout), the run aborts with that error after the
\* steps up to that wait: the ads transfer is not polled, no reference table is
\* loaded, no script is executed, no query is scheduled, and the two transfer
\* configs created stay.
C7_MerchantWaitErrorAborts ==
  (setup.called /\ ReachesMerchantWait(setup.oracle)
     /\ setup.oracle.wait_merchant # WaitReturned)
    => /\ setup.error.type = "DataTransferError"
       /\ setup.error.kind = setup.oracle.wait_merchant.kind
       /\ setup.error.payload = setup.oracle.wait_merchant.payload
       /\ setup.exit # 0
       /\ StepsTaken = SubSeq(CompleteRun, 1, 5)
       /\ \E i, j \in 1..Len(configs) :
            /\ configs[i].data_source_id = _MERCHANT_CENTER_ID
            /\ configs[j].data_source_id = _GOOGLE_ADS_ID

\* C8: when main is invoked with the required flags and every collaborator
\* call succeeds, the run completes with exit status zero and its steps are
\* the ten steps of the control flow, in that order.
C8_RunsToCompletionInOrder ==
  (setup.called /\ EveryCallSucceeds(setup.oracle))
    => /\ setup.error = NoError
       /\ setup.exit = 0
       /\ StepsTaken = CompleteRun

----------------------------------------------------------------------------
(* Properties of the query runner.                                         *)

ScriptOrder == <<"sql/inventory.sql", "sql/best_sellers.sql", "sql/main_workflow.sql">>

\* The positions in the calls of the last execute_queries of a call for the
\* i-th script.
CallsFor(call, i) ==
  {k \in 1..Len(queries.events) : queries.events[k] = Event(call, ScriptOrder[i])}

ScriptFailed(i) == queries.fate[ScriptOrder[i]] # "ok"

\* C9: execute_queries processes inventory, best sellers, main workflow in
\* that order; a script is resolved and submitted only after the job of the
\* script before it completed; if resolving, submitting or running script i
\* fails, no later script is resolved or submitted and that error is the one
\* the caller gets; if none fails the call returns normally.
C9_FailingScriptStopsSequence ==
  queries.called =>
    /\ \A i \in 1..Len(ScriptOrder) :
         /\ \A call \in {"configure_sql", "query", "result"} :
              Cardinality(CallsFor(call, i)) <= 1
         /\ CallsFor("configure_sql", i) # {}
              <=> \A j \in 1..(i - 1) : ~ScriptFailed(j)
         /\ CallsFor("query", i) # {}
              <=> /\ CallsFor("configure_sql", i) # {}
                  /\ queries.fate[ScriptOrder[i]] # "configure_sql"
         /\ CallsFor("result", i) # {}
              <=> /\ CallsFor("query", i) # {}
                  /\ queries.fate[ScriptOrder[i]] # "query"
         /\ \A q \in CallsFor("query", i) :
              \E c \in CallsFor("configure_sql", i) : c < q
         /\ \A r \in CallsFor("result", i) : \E q \in CallsFor("query", i) : q < r
         /\ i > 1 =>
              \A k \in CallsFor("configure_sql", i) \cup CallsFor("query", i) :
                \E r \in CallsFor("result", i - 1) : r < k
    /\ \A i \in 1..Len(ScriptOrder) :
         (ScriptFailed(i) /\ \A j \in 1..(i - 1) : ~ScriptFailed(j))
           => queries.err = Event(queries.fate[ScriptOrder[i]], ScriptOrder[i])
    /\ (\A i \in 1..Len(ScriptOrder) : ~ScriptFailed(i))
         => queries.err = NoScriptError

\* The job of the second script failed after the first script completed.
C9_Witness ==
  /\ queries.called
  /\ queries.fate["sql/inventory.sql"] = "ok"
  /\ queries.fate["sql/best_sellers.sql"] = "result"
  /\ queries.err = Event("result", "sql/best_sellers.sql")
  /\ CallsFor("result", 1) # {}
  /\ CallsFor("configure_sql", 3) = {}

----------------------------------------------------------------------------
(* Properties of the dataset provisioner.                                  *)

CreateRequests(call) ==
  Cardinality({k \in 1..Len(call.reqs) : call.reqs[k] = "create_dataset"})

FetchFailed(call) == call.fetched \notin {"found", "NotFound"}

WasAbsent(call) ==
  ~\E d \in call.before :
     d.id = fully_qualified_dataset_id(call.args[1], call.args[2])

\* The last two calls had the same arguments and the first of them returned.
TwiceInSequence ==
  /\ provision.prev.args # <<>>
  /\ provision.last.args = provision.prev.args
  /\ provision.prev.err = None

\* C10: of two create_dataset_if_not_exists calls in sequence with the same
\* project id, dataset id and location, the first sends one create request if
\* the dataset was absent and none if it was there; after it returned, the
\* second sends no create request and raises nothing, and exactly one dataset
\* of that id exists. A fetch that fails with something other than not-found
\* (in either call) ends the call with that failure and without a create
\* request.
C10_SecondProvisionCreatesNothing ==
  /\ \A call \in {provision.prev, provision.last} :
       call.args # <<>> =>
         IF FetchFailed(call)
           THEN call.err = call.fetched /\ CreateRequests(call) = 0
           ELSE CreateRequests(call) = IF WasAbsent(call) THEN 1 ELSE 0
  /\ TwiceInSequence =>
       /\ CreateRequests(provision.last) = 0
       /\ ~FetchFailed(provision.last) => provision.last.err = None
       /\ Cardinality({d \in datasets :
            d.id = fully_qualified_dataset_id(provision.last.args[1],
                                              provision.last.args[2])}) = 1

\* Two calls in sequence for a dataset that was absent: the first created it,
\* the second found it.
C10_Witness ==
  /\ TwiceInSequence
  /\ WasAbsent(provision.prev)
  /\ CreateRequests(provision.prev) = 1
  /\ provision.last.reqs = <<"get_dataset">>
  /\ provision.last.err = None

----------------------------------------------------------------------------
(* Properties of the backfill of the ads transfer.                         *)

BackfillRequests(reqs) ==
  {k \in 1..Len(reqs) : reqs[k].call = "schedule_transfer_runs"}

AdsReturned == last.op = "create_google_ads_transfer"

\* C11: create_google_ads_transfer sends a schedule_transfer_runs request if
\* and only if it created a config (none was reused) and backfill_days > 0;
\* then it sends exactly one, for the new config, from midnight of (now -
\* backfill_days) to midnight of now, so that start <= end. With
\* backfill_days <= 0, or on reuse, it sends none.
C11_BackfillIffCreatedAndPositive ==
  AdsReturned =>
    /\ BackfillRequests(last.reqs) # {}
         <=> (Creates(last.reqs) = 1 /\ last.found = 0 /\ last.args.backfill > 0)
    /\ \A k \in BackfillRequests(last.reqs) :
         /\ Cardinality(BackfillRequests(last.reqs)) = 1
         /\ last.reqs[k].target = last.ret
         /\ \E now \in Clock :
              /\ last.reqs[k].start = Midnight(MinusDays(now, last.args.backfill))
              /\ last.reqs[k].end[1] \in {now[1], now[1] + 1}
         /\ last.reqs[k].end = Midnight(last.reqs[k].end)
         /\ TimeLeq(last.reqs[k].start, last.reqs[k].end)

----------------------------------------------------------------------------
(* Properties of the query scheduler.                                      *)

ManualRuns(reqs) ==
  {k \in 1..Len(reqs) : reqs[k].call = "start_manual_transfer_runs"}

\* The active scheduled-query configs of display name name that the service
\* lists for location loc.
ScheduledAs(cfgs, name, loc) ==
  {i \in 1..Len(cfgs) :
     /\ cfgs[i].loc = loc
     /\ cfgs[i].data_source_id = SCHEDULED_QUERY_ID
     /\ cfgs[i].display_name = name
     /\ Active(cfgs[i])}

\* C12: schedule_query, when the location it is called for lists an active
\* scheduled-query config of exactly the given display name, sends an update
\* request only if the stored query differs from the supplied text, then
\* starts exactly one manual run of that config (after the update, if any) and
\* creates nothing. When there is no such config it sends exactly one create
\* request (schedule 'every 24 hours', the query text as the only parameter)
\* and starts no manual run; it sends none if obtaining the authorization
\* code failed (the provider raised, or the data source was empty), and that
\* error is what the caller gets.
C12_ScheduleQueryUpdatesThenRuns ==
  [][Called("schedule_query") =>
       LET reqs == last'.reqs
           existing == ScheduledAs(configs, last'.args.name, last'.args.loc)
           i == Min(existing)
       IN  IF existing # {}
             THEN /\ last'.err = None
                  /\ Creates(reqs) = 0
                  /\ Len(configs') = Len(configs)
                  /\ Updates(reqs)
                       = IF configs[i].params.query # last'.args.query THEN 1 ELSE 0
                  /\ \A k \in 1..Len(reqs) :
                       reqs[k].call = "update_transfer_config"
                         => reqs[k].target = configs[i].name
                  /\ configs'[i].params = QueryParams(last'.args.query)
                  /\ Cardinality(ManualRuns(reqs)) = 1
                  /\ reqs[Len(reqs)].call = "start_manual_transfer_runs"
                  /\ reqs[Len(reqs)].target = configs[i].name
                  /\ last'.ret = configs[i].name
             ELSE /\ Updates(reqs) = 0
                  /\ ManualRuns(reqs) = {}
                  /\ IF last'.err = None
                       THEN /\ Creates(reqs) = 1
                            /\ Len(configs') = Len(configs) + 1
                            /\ configs'[Len(configs')].schedule = "every 24 hours"
                            /\ configs'[Len(configs')].params
                                 = QueryParams(last'.args.query)
                            /\ configs'[Len(configs')].display_name = last'.args.name
                            /\ last'.ret = configs'[Len(configs')].name
                       ELSE /\ Creates(reqs) = 0
                            /\ configs' = configs
                            /\ last'.err \in {"AuthorizationError", "AssertionError"}
  ]_vars

\* A call has updated the query of an existing config and started its manual
\* run, while a config of another display name is listed before it in the
\* same location.
C12_Witness ==
  /\ last.op = "schedule_query"
  /\ last.found # 0
  /\ Updates(last.reqs) = 1
  /\ Len(last.reqs) = 3
  /\ last.reqs[2].call = "update_transfer_config"
  /\ last.reqs[3].call = "start_manual_transfer_runs"
  /\ configs[last.found].params.query = last.args.query
  /\ \E j \in 1..(last.found - 1) :
       /\ configs[j].data_source_id = SCHEDULED_QUERY_ID
       /\ configs[j].loc = configs[last.found].loc
       /\ configs[j].display_name # configs[last.found].display_name
       /\ Active(configs[j])

----------------------------------------------------------------------------
(* The transfer poller and an empty run list.                              *)

\* The most recent inspection found no run.
FoundNoRuns == poll.inspections > 0 /\ poll.latest = NoRun

\* C13: whenever an inspection finds the run list of the config empty, be it
\* the first inspection or a later one, the wait returns at that inspection:
\* it raises nothing and does not sleep after it (every sleep followed an
\* earlier inspection that found the run pending or running).
C13_NoRunsReturnsAtOnce ==
  FoundNoRuns
    => /\ poll.pc = "done"
       /\ poll.outcome = "returned"
       /\ poll.error = NoError
       /\ poll.in_progress = poll.inspections - 1
       /\ poll.sleeps = poll.inspections - 1
       /\ poll.slept = (poll.inspections - 1) * _SLEEP_SECONDS

\* The run list was empty at the third inspection, after two sleeps.
C13_Witness ==
  /\ FoundNoRuns
  /\ poll.inspections = 3
  /\ poll.sleeps = 2
  /\ poll.outcome = "returned"

----------------------------------------------------------------------------
(* Properties of the lookup.                                               *)

\* The criteria of the lookup for the config listed at position i.
Satisfies(i) ==
  LET c == configs[i]
      a == lookup.args
  IN  /\ c.loc = a.dataset_location
      /\ c.data_source_id = a.data_source_id
      /\ (a.destination_dataset_id \notin {None, ""}
            => c.destination_dataset_id = a.destination_dataset_id)
      /\ \A key \in DOMAIN a.params :
           key \in DOMAIN c.params /\ c.params[key] = a.params[key]
      /\ (a.name # NoName => c.display_name = a.name)
      /\ c.state \in {_PENDING_STATE, _RUNNING_STATE, _SUCCESS_STATE}

\* C14: _get_existing_transfer returns the first config, in listing order,
\* that has the requested data source, the requested destination dataset if
\* one is given, every requested parameter with an equal value if parameters
\* are given (the config may have more), the requested display name if one is
\* given, and a state among pending, running, succeeded. It returns none if
\* no listed config has all of these, and never a failed or cancelled config.
C14_FirstSatisfyingConfig ==
  lookup.called =>
    /\ IF \E i \in 1..Len(configs) : Satisfies(i)
         THEN /\ lookup.found \in 1..Len(configs)
              /\ Satisfies(lookup.found)
              /\ \A j \in 1..(lookup.found - 1) : ~Satisfies(j)
         ELSE lookup.found = 0
    /\ lookup.found # 0
         => configs[lookup.found].state \notin {_FAILED_STATE, _CANCELLED_STATE}

\* The lookup passed over a failed config and returned the one listed after
\* it, which has a parameter more than the requested ones.
C14_Witness ==
  /\ lookup.called
  /\ lookup.found = 2
  /\ configs[1].state = _FAILED_STATE
  /\ lookup.args.name = <<"n1">>
  /\ lookup.args.params = [k1 |-> "v1"]
  /\ configs[2].params = [k1 |-> "v1", k2 |-> "v2"]

----------------------------------------------------------------------------
(* Properties of the credential check and the authorization provider.      *)

ManagerOps ==
  {"create_merchant_center_transfer", "create_google_ads_transfer", "schedule_query"}

Requests(call_record, call) ==
  {k \in 1..Len(call_record.reqs) : call_record.reqs[k].call = call}

\* What a returned call shows of the credential check and the provider.
CredentialsOnCreatePathOnly(c) ==
  LET checks == Requests(c, "check_valid_creds")
      codes == Requests(c, "retrieve_authorization_code")
      creates == Requests(c, "create_transfer_config")
  IN  IF c.found # 0
        THEN checks = {} /\ codes = {} /\ Requests(c, "get_data_source") = {}
        ELSE /\ Cardinality(checks) = 1
             /\ Cardinality(codes) <= 1
             /\ \A k \in checks :
                  /\ \A n \in creates \cup codes : k < n
                  /\ codes # {} <=> c.reqs[k].answer = "no_valid_creds"
             /\ \A k \in codes :
                  /\ \A n \in creates : k < n /\ c.reqs[n].auth = c.reqs[k].answer
                  /\ IF c.reqs[k].answer = "error"
                       THEN creates = {} /\ c.err = "AuthorizationError" /\ c.ret = 0
                       ELSE Cardinality(creates) = 1 /\ c.err = None
             /\ codes = {} =>
                  /\ Cardinality(creates) = 1
                  /\ \A n \in creates : c.reqs[n].auth \in {None, ""}

\* C15: create_merchant_center_transfer, create_google_ads_transfer and
\* schedule_query consult the credential check and the authorization provider
\* only when they create, never when they reuse a config. When they create,
\* the check comes before the create request, and the authorization code is
\* requested from the provider, and sent in the create request, if and only
\* if the check reports no valid stored credentials. If the provider fails,
\* the call ends with that error, sends no create request and the configs of
\* the service stay as they were.
C15_CredentialsOnCreatePathOnly ==
  [][(last' # last /\ last'.op \in ManagerOps) =>
       /\ CredentialsOnCreatePathOnly(last')
       /\ last'.err # None => configs' = configs
  ]_vars

\* What a returned call shows of the credential check, the data source and
\* the provider.
CodeOnlyWithDataSource(c) ==
  LET checks == Requests(c, "check_valid_creds")
      sources == Requests(c, "get_data_source")
      codes == Requests(c, "retrieve_authorization_code")
      creates == Requests(c, "create_transfer_config")
  IN  IF c.found # 0
        THEN checks = {} /\ sources = {} /\ codes = {}
        ELSE /\ Cardinality(checks) = 1
             /\ Cardinality(sources) <= 1
             /\ Cardinality(codes) <= 1
             /\ \A k \in checks :
                  /\ \A n \in creates \cup codes \cup sources : k < n
                  /\ sources # {} <=> c.reqs[k].answer = "no_valid_creds"
             /\ codes # {} <=> \E k \in sources : c.reqs[k].answer # "empty"
             /\ \A k \in sources :
                  /\ \A n \in codes : k < n
                  /\ c.reqs[k].answer = "empty"
                       => creates = {} /\ c.err = "AssertionError" /\ c.ret = 0
             /\ \A k \in codes :
                  /\ \A n \in creates : k < n /\ c.reqs[n].auth = c.reqs[k].answer
                  /\ IF c.reqs[k].answer = "error"
                       THEN creates = {} /\ c.err = "AuthorizationError" /\ c.ret = 0
                       ELSE Cardinality(creates) = 1 /\ c.err = None
             /\ sources = {} =>
                  /\ Cardinality(creates) = 1
                  /\ c.err = None
                  /\ \A n \in creates : c.reqs[n].auth \in {None, ""}

\* C15, with the data source: the three methods consult the credential
\* check, the data source and the authorization provider only when they
\* create, never when they reuse a config. When they create, the check comes
\* before the create request; the data source is fetched if and only if the
\* check reports no valid stored credentials, and the authorization code is
\* requested from the provider, and sent in the create request, if and only
\* if moreover the data source fetched is not empty. An empty data source
\* ends the call with an AssertionError and a failing provider with the
\* provider's error; in both cases no create request is sent and the configs
\* of the service stay as they were.
C15_CodeOnlyWithDataSource ==
  [][(last' # last /\ last'.op \in ManagerOps) =>
       /\ CodeOnlyWithDataSource(last')
       /\ last'.err # None => configs' = configs
  ]_vars

\* The check reported no valid credentials, the provider gave a code and the
\* create request carried it.
C15_Witness ==
  /\ last.op \in ManagerOps
  /\ last.found = 0
  /\ last.err = None
  /\ \E k \in Requests(last, "check_valid_creds") :
       last.reqs[k].answer = "no_valid_creds"
  /\ \E k \in Requests(last, "create_transfer_config") : last.reqs[k].auth = "code"

====
